---- MODULE Spec2Model ----
(***************************************************************************)
(* Model of src/migrate_indices.py: the migration orchestrator that        *)
(* submits one remote reindex task per configured source index and polls   *)
(* the tasks until the dict task_ids is empty.                             *)
(*                                                                         *)
(* The search cluster client is the environment: every call on it either   *)
(* raises or returns a mapping.  A Python dict is a sequence of            *)
(* <<key, value>> pairs in insertion order, with unique keys.              *)
(***************************************************************************)
EXTENDS Integers, Sequences, FiniteSets, TLC

VARIABLES
    pc,             \* position of migrate_indices
    source_indices, \* the list under source_indices in the configuration file
    i,              \* entries of source_indices the for loop has consumed
    task_ids,       \* the dict task_ids: index -> task_id, in insertion order
    items,          \* what is left of list(task_ids.items()) in this cycle
    calls,          \* es_target.reindex calls so far: [index, task] in call order
    nQueries,       \* es_target.tasks.get calls per task_id (saturating)
    outcome,        \* per task_id, the terminal line logged for it
    nTerminal,      \* per task_id, how many terminal lines were logged (saturating)
    summary,        \* "Migration completed in ..." lines logged (saturating)
    cycles,         \* time.sleep(10) calls so far (saturating)
    errors,         \* kinds of logging.error lines emitted outside the poll loop
    snapshot,       \* list(task_ids.items()) as taken at the start of this cycle
    queried,        \* the entries of the snapshot queried so far in this cycle
    now,            \* time units since the submit loop ended (saturating)
    doneAt          \* per task_id, when the remote task completes on the cluster

vars == <<pc, source_indices, i, task_ids, items, calls, nQueries, outcome,
          nTerminal, summary, cycles, errors, snapshot, queried, now, doneAt>>

\* the clock and the remote completion times
timing == <<now, doneAt>>

\* the record of the current poll cycle
cycleLog == <<snapshot, queried>>

----------------------------------------------------------------------------
(* Bounds of the model. *)

\* longest configured list source_indices
MaxIndices == 3
\* counters of log lines and client calls saturate here
MaxCount == 2
\* the cycle counter saturates here; the loop itself is not bounded
MaxCycles == 2
\* longest configured list in the runs checked for liveness
LiveIndices == 2
\* longest configured list in the runs with remote completion times
TimedIndices == 2

\* time.sleep(10): the wait that starts every poll cycle
Interval == 10
\* the time a status query may take on top of the waits
Latency == Interval \div 2
\* the clock saturates here, not before the last completion time
MaxNow == Interval * (MaxCycles + 1)
\* the times, counted from the end of the submit loop, at which a remote
\* task may complete (0: it had completed when the submit loop ended)
Times == {k * Latency : k \in 0..(2 * MaxCycles)}

Min(a, b) == IF a < b THEN a ELSE b

Max(a, b) == IF a < b THEN b ELSE a

\* ceil(a / b) for a >= 0, b > 0
Ceil(a, b) == (a + b - 1) \div b

\* index names; the code never looks into a name, so a configuration is
\* taken up to renaming: its names appear first in the order of this list
NamePool == <<"a", "b", "c", "d", "e", "f">>

Names == {NamePool[k] : k \in 1..MaxIndices}

\* start_reindex_task returns None when the submission failed
None == 0
\* the cluster assigns a fresh task id to every accepted reindex call: the
\* k-th call of the run, when accepted, gets task id k
TaskIds == 1..(MaxIndices + 1)

\* the lists of length n, each name either one already listed or the next
\* unused name of NamePool (a list may repeat a name)
RECURSIVE ListsOfLen(_)
ListsOfLen(n) ==
    IF n = 0 THEN {<<>>}
    ELSE UNION {{Append(s, NamePool[k]) :
                    k \in 1..(Cardinality({s[j] : j \in 1..(n - 1)}) + 1)} :
                s \in ListsOfLen(n - 1)}

\* the lists a loaded configuration may carry under source_indices
Configs == UNION {ListsOfLen(n) : n \in 0..MaxIndices}

Bump(n, max) == IF n < max THEN n + 1 ELSE n

----------------------------------------------------------------------------
(* The dict task_ids. *)

Keys(d) == {d[k][1] : k \in 1..Len(d)}

Values(d) == {d[k][2] : k \in 1..Len(d)}

\* d[key] = value: a present key keeps its position, a new key is appended
SetItem(d, key, value) ==
    IF key \in Keys(d)
    THEN [k \in 1..Len(d) |-> IF d[k][1] = key THEN <<key, value>> ELSE d[k]]
    ELSE Append(d, <<key, value>>)

\* d.pop(key)
Pop(d, key) == SelectSeq(d, LAMBDA kv : kv[1] # key)

----------------------------------------------------------------------------
(* The client's answers. *)

\* es_target.reindex(...): raises, or returns a mapping with or without 'task'
ReindexResponses == {"raise", "no_task", "task"}

\* es_target.tasks.get(...): raises, or returns a mapping; 'completed' and
\* 'error' are each present or absent
RaisedResponse == [raised |-> TRUE, completed |-> "absent", error |-> "absent"]

Mappings ==
    [raised : {FALSE}, completed : {"true", "false", "absent"}, error : {"absent", "remote"}]

\* the mappings the client contract allows: {completed: bool, error?: string}
ContractMappings == {m \in Mappings : m.completed # "absent"}

ContractResponses == ContractMappings \cup {RaisedResponse}

MalformedResponses == Mappings \ ContractMappings

----------------------------------------------------------------------------
(* start_reindex_task and check_task_status. *)

\* the task id the function returns for the k-th reindex call, or None
start_reindex_task(response, k) ==
    IF response = "task" THEN k ELSE None

\* check_task_status reporting a failed query as a task still in progress
check_task_status_retries(response) ==
    IF response.raised
    THEN [completed |-> "false", error |-> "absent"]
    ELSE [completed |-> response.completed, error |-> response.error]

\* the status mapping the function returns
check_task_status(response) ==
    IF response.raised
    THEN [completed |-> "true", error |-> "query"]
    ELSE [completed |-> response.completed, error |-> response.error]

----------------------------------------------------------------------------
\* the state at the entry of migrate_indices, the remote cluster apart
InitRun ==
    /\ pc = "load"
    /\ source_indices \in Configs
    /\ i = 0
    /\ task_ids = <<>>
    /\ items = <<>>
    /\ calls = <<>>
    /\ nQueries = [t \in TaskIds \cup {None} |-> 0]
    /\ outcome = [t \in TaskIds \cup {None} |-> "none"]
    /\ nTerminal = [t \in TaskIds \cup {None} |-> 0]
    /\ summary = 0
    /\ cycles = 0
    /\ errors = {}
    /\ snapshot = <<>>
    /\ queried = <<>>
    /\ now = 0

\* the remote completion times play no part: the client answers freely
Init ==
    /\ InitRun
    /\ doneAt = [t \in TaskIds |-> 0]

\* the k-th reindex call, if accepted, starts a remote task that completes
\* at doneAt[k]
TimedInit ==
    /\ InitRun
    /\ Len(source_indices) <= TimedIndices
    /\ doneAt \in {d \in [TaskIds -> Times] :
                      \A t \in TaskIds : t > Len(source_indices) => d[t] = 0}

\* the except clause of migrate_indices
Abort ==
    /\ pc' = "aborted"
    /\ errors' = errors \cup {"migration_failed"}

\* config = load_config(config_path)
LoadConfig ==
    /\ pc = "load"
    /\ pc' = "client"
    /\ UNCHANGED <<source_indices, i, task_ids, items, calls, nQueries, outcome,
                   nTerminal, summary, cycles, errors>>
    /\ UNCHANGED <<timing, cycleLog>>

\* load_config logging the failure and returning an empty configuration
LoadConfigSwallowsFailure ==
    /\ pc = "load"
    /\ pc' = "client"
    /\ errors' = errors \cup {"load_failed"}
    /\ UNCHANGED <<source_indices, i, task_ids, items, calls, nQueries, outcome,
                   nTerminal, summary, cycles>>
    /\ UNCHANGED <<timing, cycleLog>>

\* load_config raises: logged there and again by migrate_indices
LoadConfigFails ==
    /\ pc = "load"
    /\ pc' = "aborted"
    /\ errors' = errors \cup {"load_failed", "migration_failed"}
    /\ UNCHANGED <<source_indices, i, task_ids, items, calls, nQueries, outcome,
                   nTerminal, summary, cycles>>
    /\ UNCHANGED <<timing, cycleLog>>

\* es_target = initialize_opensearch_client(config); task_ids = {}
InitializeClient ==
    /\ pc = "client"
    /\ pc' = "submit"
    /\ task_ids' = <<>>
    /\ UNCHANGED <<source_indices, i, items, calls, nQueries, outcome, nTerminal,
                   summary, cycles, errors>>
    /\ UNCHANGED <<timing, cycleLog>>

\* the client constructor raises: logged there and again by migrate_indices
InitializeClientFails ==
    /\ pc = "client"
    /\ pc' = "aborted"
    /\ errors' = errors \cup {"client_failed", "migration_failed"}
    /\ UNCHANGED <<source_indices, i, task_ids, items, calls, nQueries, outcome,
                   nTerminal, summary, cycles>>
    /\ UNCHANGED <<timing, cycleLog>>

\* the loaded configuration lacks source_indices, target_index,
\* es_source_remote or one of its fields: the KeyError is raised when the
\* submit loop first reads them, before any reindex call
ConfigKeyMissing ==
    /\ pc = "submit"
    /\ i = 0
    /\ Abort
    /\ UNCHANGED <<source_indices, i, task_ids, items, calls, nQueries, outcome,
                   nTerminal, summary, cycles>>
    /\ UNCHANGED <<timing, cycleLog>>

\* Submit with the failure of one submission raised out of the loop
SubmitAbortsOnFailure ==
    /\ pc = "submit"
    /\ i < Len(source_indices)
    /\ \E response \in ReindexResponses :
          LET index   == source_indices[i + 1]
              task_id == start_reindex_task(response, Len(calls) + 1)
          IN  /\ calls' = Append(calls, [index |-> index, task |-> task_id])
              /\ IF task_id # None
                 THEN /\ task_ids' = SetItem(task_ids, index, task_id)
                      /\ UNCHANGED <<pc, errors>>
                 ELSE /\ Abort
                      /\ UNCHANGED task_ids
    /\ i' = i + 1
    /\ UNCHANGED <<source_indices, items, nQueries, outcome, nTerminal, summary, cycles>>
    /\ UNCHANGED <<timing, cycleLog>>

\* one pass of: for index in config['source_indices']
Submit ==
    /\ pc = "submit"
    /\ i < Len(source_indices)
    /\ \E response \in ReindexResponses :
          LET index   == source_indices[i + 1]
              task_id == start_reindex_task(response, Len(calls) + 1)
          IN  /\ calls' = Append(calls, [index |-> index, task |-> task_id])
              /\ task_ids' = IF task_id # None
                             THEN SetItem(task_ids, index, task_id)
                             ELSE task_ids
    /\ i' = i + 1
    /\ UNCHANGED <<pc, source_indices, items, nQueries, outcome, nTerminal, summary,
                   cycles, errors>>
    /\ UNCHANGED <<timing, cycleLog>>

\* EndSubmit leaving the for loop before source_indices is exhausted
EndSubmitEarly ==
    /\ pc = "submit"
    /\ i <= Len(source_indices)
    /\ pc' = "while"
    /\ UNCHANGED <<source_indices, i, task_ids, items, calls, nQueries, outcome,
                   nTerminal, summary, cycles, errors>>
    /\ UNCHANGED <<timing, cycleLog>>

\* the for loop over source_indices is exhausted
EndSubmit ==
    /\ pc = "submit"
    /\ i = Len(source_indices)
    /\ pc' = "while"
    /\ UNCHANGED <<source_indices, i, task_ids, items, calls, nQueries, outcome,
                   nTerminal, summary, cycles, errors>>
    /\ UNCHANGED <<timing, cycleLog>>

\* BeginCycle giving up after MaxCycles cycles
BeginCycleWithTimeout ==
    /\ pc = "while"
    /\ task_ids # <<>>
    /\ cycles < MaxCycles
    /\ cycles' = cycles + 1
    /\ items' = task_ids
    /\ pc' = "for"
    /\ UNCHANGED <<source_indices, i, task_ids, calls, nQueries, outcome, nTerminal,
                   summary, errors>>
    /\ now' = Min(now + Interval, MaxNow)
    /\ snapshot' = task_ids
    /\ queried' = <<>>
    /\ UNCHANGED doneAt

\* BeginCycle as the body of a do-while: entered without testing task_ids
BeginCycleUntested ==
    /\ pc = "while"
    /\ cycles' = Bump(cycles, MaxCycles)
    /\ items' = task_ids
    /\ pc' = "for"
    /\ UNCHANGED <<source_indices, i, task_ids, calls, nQueries, outcome, nTerminal,
                   summary, errors>>
    /\ now' = Min(now + Interval, MaxNow)
    /\ snapshot' = task_ids
    /\ queried' = <<>>
    /\ UNCHANGED doneAt

\* BeginCycle iterating over every task id the submit loop obtained instead
\* of the entries task_ids still holds
BeginCycleAllSubmitted ==
    /\ pc = "while"
    /\ task_ids # <<>>
    /\ cycles' = Bump(cycles, MaxCycles)
    /\ LET accepted == SelectSeq(calls, LAMBDA c : c.task # None)
           all      == [k \in 1..Len(accepted) |-> <<accepted[k].index, accepted[k].task>>]
       IN  /\ items' = all
           /\ snapshot' = all
    /\ pc' = "for"
    /\ UNCHANGED <<source_indices, i, task_ids, calls, nQueries, outcome, nTerminal,
                   summary, errors>>
    /\ now' = Min(now + Interval, MaxNow)
    /\ queried' = <<>>
    /\ UNCHANGED doneAt

\* BeginCycle without time.sleep(10)
BeginCycleNoSleep ==
    /\ pc = "while"
    /\ task_ids # <<>>
    /\ cycles' = Bump(cycles, MaxCycles)
    /\ items' = task_ids
    /\ pc' = "for"
    /\ UNCHANGED <<source_indices, i, task_ids, calls, nQueries, outcome, nTerminal,
                   summary, errors>>
    /\ snapshot' = task_ids
    /\ queried' = <<>>
    /\ UNCHANGED timing

\* BeginCycle sleeping half the interval
BeginCycleShortSleep ==
    /\ pc = "while"
    /\ task_ids # <<>>
    /\ cycles' = Bump(cycles, MaxCycles)
    /\ items' = task_ids
    /\ pc' = "for"
    /\ UNCHANGED <<source_indices, i, task_ids, calls, nQueries, outcome, nTerminal,
                   summary, errors>>
    /\ now' = Min(now + Latency, MaxNow)
    /\ snapshot' = task_ids
    /\ queried' = <<>>
    /\ UNCHANGED doneAt

\* while task_ids: time.sleep(10); for ... in list(task_ids.items())
BeginCycle ==
    /\ pc = "while"
    /\ task_ids # <<>>
    /\ cycles' = Bump(cycles, MaxCycles)
    /\ items' = task_ids
    /\ pc' = "for"
    /\ UNCHANGED <<source_indices, i, task_ids, calls, nQueries, outcome, nTerminal,
                   summary, errors>>
    /\ now' = Min(now + Interval, MaxNow)
    /\ snapshot' = task_ids
    /\ queried' = <<>>
    /\ UNCHANGED doneAt

\* Poll without task_ids.pop(index): a finished task stays in task_ids
PollKeepsFinished(response) ==
    /\ pc = "for"
    /\ items # <<>>
    /\ LET task_id == Head(items)[2]
           status  == check_task_status(response)
       IN  /\ nQueries' = [nQueries EXCEPT ![task_id] = Bump(@, MaxCount)]
           /\ IF status.completed = "absent"
              THEN /\ Abort
                   /\ UNCHANGED <<task_ids, items, outcome, nTerminal>>
              ELSE IF status.completed = "true"
              THEN /\ outcome' = [outcome EXCEPT ![task_id] =
                                     IF status.error # "absent"
                                     THEN IF status.error = "query"
                                          THEN "failed_query" ELSE "failed_remote"
                                     ELSE "completed"]
                   /\ nTerminal' = [nTerminal EXCEPT ![task_id] = Bump(@, MaxCount)]
                   /\ items' = Tail(items)
                   /\ UNCHANGED <<pc, errors, task_ids>>
              ELSE /\ items' = Tail(items)
                   /\ UNCHANGED <<pc, errors, task_ids, outcome, nTerminal>>
    /\ UNCHANGED <<source_indices, i, calls, summary, cycles>>
    /\ queried' = Append(queried, Head(items))
    /\ UNCHANGED <<timing, snapshot>>

\* Poll iterating over the live entries instead of the list(...) copy, as a
\* list iterator does: the entry that follows a popped one is skipped
PollSkipsAfterPop(response) ==
    /\ pc = "for"
    /\ items # <<>>
    /\ LET index   == Head(items)[1]
           task_id == Head(items)[2]
           status  == check_task_status(response)
       IN  /\ nQueries' = [nQueries EXCEPT ![task_id] = Bump(@, MaxCount)]
           /\ IF status.completed = "absent"
              THEN /\ Abort
                   /\ UNCHANGED <<task_ids, items, outcome, nTerminal>>
              ELSE IF status.completed = "true"
              THEN /\ outcome' = [outcome EXCEPT ![task_id] =
                                     IF status.error # "absent"
                                     THEN IF status.error = "query"
                                          THEN "failed_query" ELSE "failed_remote"
                                     ELSE "completed"]
                   /\ nTerminal' = [nTerminal EXCEPT ![task_id] = Bump(@, MaxCount)]
                   /\ task_ids' = Pop(task_ids, index)
                   /\ items' = IF Len(items) > 1 THEN Tail(Tail(items)) ELSE <<>>
                   /\ UNCHANGED <<pc, errors>>
              ELSE /\ items' = Tail(items)
                   /\ UNCHANGED <<pc, errors, task_ids, outcome, nTerminal>>
    /\ UNCHANGED <<source_indices, i, calls, summary, cycles>>
    /\ queried' = Append(queried, Head(items))
    /\ UNCHANGED <<timing, snapshot>>

\* Poll with task_ids.pop(index) after the if/else: an entry is dropped
\* whatever the answer
PollDropsInProgress(response) ==
    /\ pc = "for"
    /\ items # <<>>
    /\ LET index   == Head(items)[1]
           task_id == Head(items)[2]
           status  == check_task_status(response)
       IN  /\ nQueries' = [nQueries EXCEPT ![task_id] = Bump(@, MaxCount)]
           /\ IF status.completed = "absent"
              THEN /\ Abort
                   /\ UNCHANGED <<task_ids, items, outcome, nTerminal>>
              ELSE IF status.completed = "true"
              THEN /\ outcome' = [outcome EXCEPT ![task_id] =
                                     IF status.error # "absent"
                                     THEN IF status.error = "query"
                                          THEN "failed_query" ELSE "failed_remote"
                                     ELSE "completed"]
                   /\ nTerminal' = [nTerminal EXCEPT ![task_id] = Bump(@, MaxCount)]
                   /\ task_ids' = Pop(task_ids, index)
                   /\ items' = Tail(items)
                   /\ UNCHANGED <<pc, errors>>
              ELSE /\ task_ids' = Pop(task_ids, index)
                   /\ items' = Tail(items)
                   /\ UNCHANGED <<pc, errors, outcome, nTerminal>>
    /\ UNCHANGED <<source_indices, i, calls, summary, cycles>>
    /\ queried' = Append(queried, Head(items))
    /\ UNCHANGED <<timing, snapshot>>

\* one pass of the for loop over the snapshot, the client answering `response`
Poll(response) ==
    /\ pc = "for"
    /\ items # <<>>
    /\ LET index   == Head(items)[1]
           task_id == Head(items)[2]
           status  == check_task_status(response)
       IN  /\ nQueries' = [nQueries EXCEPT ![task_id] = Bump(@, MaxCount)]
           /\ IF status.completed = "absent"
              THEN \* status['completed'] raises KeyError
                   /\ Abort
                   /\ UNCHANGED <<task_ids, items, outcome, nTerminal>>
              ELSE IF status.completed = "true"
              THEN /\ outcome' = [outcome EXCEPT ![task_id] =
                                     IF status.error # "absent"
                                     THEN IF status.error = "query"
                                          THEN "failed_query" ELSE "failed_remote"
                                     ELSE "completed"]
                   /\ nTerminal' = [nTerminal EXCEPT ![task_id] = Bump(@, MaxCount)]
                   /\ task_ids' = Pop(task_ids, index)
                   /\ items' = Tail(items)
                   /\ UNCHANGED <<pc, errors>>
              ELSE /\ items' = Tail(items)
                   /\ UNCHANGED <<pc, errors, task_ids, outcome, nTerminal>>
    /\ UNCHANGED <<source_indices, i, calls, summary, cycles>>
    /\ queried' = Append(queried, Head(items))
    /\ UNCHANGED <<timing, snapshot>>

\* the client honours its contract
PollContract == \E response \in ContractResponses : Poll(response)

\* the client returns a mapping without 'completed'
PollMalformed == \E response \in MalformedResponses : Poll(response)

\* the for loop over the snapshot is exhausted
EndCycle ==
    /\ pc = "for"
    /\ items = <<>>
    /\ pc' = "while"
    /\ UNCHANGED <<source_indices, i, task_ids, items, calls, nQueries, outcome,
                   nTerminal, summary, cycles, errors>>
    /\ UNCHANGED <<timing, cycleLog>>

\* task_ids is empty: log the elapsed time and return
Finish ==
    /\ pc = "while"
    /\ task_ids = <<>>
    /\ summary' = Bump(summary, MaxCount)
    /\ pc' = "done"
    /\ UNCHANGED <<source_indices, i, task_ids, items, calls, nQueries, outcome,
                   nTerminal, cycles, errors>>
    /\ UNCHANGED <<timing, cycleLog>>

Next ==
    \/ LoadConfig
    \/ LoadConfigFails
    \/ InitializeClient
    \/ InitializeClientFails
    \/ ConfigKeyMissing
    \/ Submit
    \/ EndSubmit
    \/ BeginCycle
    \/ PollContract
    \/ EndCycle
    \/ Finish

\* the run against a client that honours its contract
Spec == Init /\ [][Next]_vars

\* the same run, never stopping while it has a next step: the code is one
\* sequential thread, time.sleep returns, and every client call returns or
\* raises
LiveInit == Init /\ Len(source_indices) <= LiveIndices

LiveSpec == LiveInit /\ [][Next]_vars /\ WF_vars(Next)

NextAnyMapping == Next \/ PollMalformed

\* a status query answered as the remote cluster stands: unless the query
\* raises, 'completed' is true exactly when the task has completed by now
PollTimed ==
    /\ pc = "for"
    /\ items # <<>>
    /\ \E response \in ContractResponses :
          /\ \/ response.raised
             \/ (response.completed = "true") <=> (doneAt[Head(items)[2]] <= now)
          /\ Poll(response)

\* the status query about to be answered takes time
CallTakesTime ==
    /\ pc = "for"
    /\ items # <<>>
    /\ now + Latency <= MaxNow
    /\ now' = now + Latency
    /\ UNCHANGED <<pc, source_indices, i, task_ids, items, calls, nQueries, outcome,
                   nTerminal, summary, cycles, errors, cycleLog, doneAt>>

TimedNext ==
    \/ LoadConfig
    \/ LoadConfigFails
    \/ InitializeClient
    \/ InitializeClientFails
    \/ ConfigKeyMissing
    \/ Submit
    \/ EndSubmit
    \/ BeginCycle
    \/ CallTakesTime
    \/ PollTimed
    \/ EndCycle
    \/ Finish

\* the run against a cluster on which every accepted task completes at a
\* time fixed in advance, the clock advancing by the waits and by the time
\* the status queries take
TimedSpec == TimedInit /\ [][TimedNext]_vars

\* the run against a client that may return any mapping
SpecAnyMapping == Init /\ [][NextAnyMapping]_vars

----------------------------------------------------------------------------
(* Readings of the run's state used by the properties below. *)

\* the terminal lines the poll loop can log for a task
Terminal == {"completed", "failed_remote", "failed_query"}

\* the calls of es_target.reindex that returned a task id
Accepted == {k \in 1..Len(calls) : calls[k].task # None}

\* the indices with at least one accepted reindex call
SubmittedIndices == {calls[k].index : k \in Accepted}

\* the task ids the cluster issued for index n
TasksOf(n) == {calls[k].task : k \in {j \in Accepted : calls[j].index = n}}

\* the state of the job of the k-th configured entry, read off the reindex
\* calls made and the terminal lines logged: Pending until its reindex call,
\* Failed when the call gave no task id, Submitted while no terminal line is
\* logged for its task id, then Completed or Failed as that line says
JobState(k) ==
    IF k > Len(calls) THEN "Pending"
    ELSE IF calls[k].task = None THEN "Failed"
    ELSE IF outcome[calls[k].task] = "none" THEN "Submitted"
    ELSE IF outcome[calls[k].task] = "completed" THEN "Completed"
    ELSE "Failed"

\* the task ids task_ids holds when the submit loop ends: for each index the
\* task id of its last accepted reindex call
TrackedTasks ==
    {calls[k].task : k \in {j \in Accepted :
                               \A m \in Accepted : calls[m].index = calls[j].index => m <= j}}

\* the time at which the last task of S completes on the remote cluster
SlowestOf(S) ==
    IF S = {} THEN 0
    ELSE CHOOSE m \in {doneAt[t] : t \in S} : \A t \in S : doneAt[t] <= m

\* no status query raised
NoPollErrors == \A t \in TaskIds : outcome[t] # "failed_query"

\* the submit loop is over and the run did not abort
Polling == pc \in {"while", "for", "done"}

----------------------------------------------------------------------------
\* C1: a failed submission stops nothing: the k-th reindex call is for the
\* k-th configured entry (one call per entry, no retry), the run does not
\* abort once submissions started, every entry has had its call when the
\* poll phase starts, and an index whose submission succeeded stays in
\* task_ids until a terminal line was logged for one of its tasks after a
\* status query; the summary is logged only when all of them are terminal.
C1_SubmitFailuresIsolated ==
    /\ Len(calls) = i
    /\ \A k \in 1..Len(calls) : calls[k].index = source_indices[k]
    /\ pc = "aborted" => calls = <<>>
    /\ Polling => Len(calls) = Len(source_indices)
    /\ \A n \in SubmittedIndices :
          \/ n \in Keys(task_ids)
          \/ \E t \in TasksOf(n) : outcome[t] \in Terminal /\ nQueries[t] >= 1
    /\ pc = "done" =>
          \A n \in SubmittedIndices :
             \E t \in TasksOf(n) : outcome[t] \in Terminal /\ nQueries[t] >= 1

\* one of three distinct indices failed to submit, the other two were
\* polled to a terminal line and the run ended
C1_Witness ==
    /\ pc = "done"
    /\ Len(source_indices) = 3
    /\ Cardinality({source_indices[k] : k \in 1..3}) = 3
    /\ calls[1].task # None /\ calls[2].task = None /\ calls[3].task # None
    /\ outcome[calls[1].task] \in Terminal
    /\ outcome[calls[3].task] \in Terminal

----------------------------------------------------------------------------
\* C2: an index for which start_reindex_task returned None is never a key of
\* task_ids and no status query is ever issued for it (neither with None as
\* the task id nor with a task id issued for that index).
C2_FailedSubmissionNeverPolled ==
    /\ None \notin Values(task_ids)
    /\ nQueries[None] = 0
    /\ \A k \in 1..Len(calls) :
          calls[k].task = None =>
             /\ calls[k].index \notin Keys(task_ids)
             /\ \A t \in TasksOf(calls[k].index) : nQueries[t] = 0

----------------------------------------------------------------------------
\* what a step that answers a status query by raising must do
C3_QueryFailureStep ==
    Poll(RaisedResponse) =>
        LET index   == Head(items)[1]
            task_id == Head(items)[2]
        IN  /\ outcome'[task_id] = "failed_query"
            /\ index \notin Keys(task_ids')
            /\ \A k \in 1..Len(task_ids) :
                  task_ids[k][1] # index =>
                     \E j \in 1..Len(task_ids') : task_ids'[j] = task_ids[k]
            /\ Len(task_ids') = Len(task_ids) - 1
            /\ items' = Tail(items)
            /\ \A k \in 1..Len(items') :
                  \E j \in 1..Len(task_ids') : task_ids'[j] = items'[k]
            /\ pc' = "for"
            /\ \A t \in TaskIds : t # task_id => outcome'[t] = outcome[t]

\* C3: a status query that raises makes its task terminally failed with the
\* query error, removes its index from task_ids in the same pass, leaves
\* every other entry of task_ids and the rest of this cycle's snapshot as
\* they were, and the run goes on with the for loop (no abort); the entries
\* still to be visited in a cycle are always entries of task_ids.
C3_QueryFailureIsLocal == [][C3_QueryFailureStep]_vars

\* the query of one task raised in the first cycle, and another task was
\* polled in that cycle and again in a later one, where it completed
C3_Witness ==
    /\ pc = "done"
    /\ \E t, u \in TaskIds :
          /\ t # u
          /\ outcome[t] = "failed_query" /\ nQueries[t] = 1
          /\ outcome[u] = "completed" /\ nQueries[u] = 2
    /\ cycles = 2

----------------------------------------------------------------------------
\* C4: once the first reindex call was issued the run never takes the
\* "Migration failed" path, whatever the client raises or returns.
C4_NoAbortAfterFirstSubmit ==
    calls # <<>> => (pc # "aborted" /\ "migration_failed" \notin errors)

----------------------------------------------------------------------------
\* the moves of JobState a step may make
C5_JobStep ==
    \A k \in 1..MaxIndices :
       LET s == JobState(k)
           t == JobState(k)'
       IN  \/ s = t
           \/ /\ s = "Pending" /\ t = "Submitted"
              /\ calls'[k].task \in Values(task_ids')
           \/ /\ s = "Pending" /\ t = "Failed"
              /\ calls'[k].task = None
           \/ /\ s = "Submitted" /\ t \in {"Completed", "Failed"}
              /\ calls[k].task \in Values(task_ids)

\* C5: in every step every job either keeps its state or moves Pending ->
\* Submitted (its task id is then in task_ids), Pending -> Failed (only when
\* the submission gave no task id), or Submitted -> Completed or Failed (only
\* for a job whose task id is in task_ids); nothing else, so no job goes
\* back and no job leaves Completed or Failed.
C5_JobStateTransitions == [][C5_JobStep]_vars

\* a run that ended with one job Completed, one Failed at submission and one
\* Failed by the poll loop
C5_Witness ==
    /\ pc = "done"
    /\ Len(calls) = 3
    /\ JobState(1) = "Completed"
    /\ JobState(2) = "Failed" /\ calls[2].task = None
    /\ JobState(3) = "Failed" /\ calls[3].task # None

----------------------------------------------------------------------------
\* C6: when the submit loop ends, task_ids has as many entries as there are
\* configured entries whose submission succeeded.
C6_ActiveSetSizeIsSuccessCount ==
    (pc = "while" /\ cycles = 0) => Len(task_ids) = Cardinality(Accepted)

----------------------------------------------------------------------------
\* C7: the summary line is logged at most once, the run is done exactly when
\* it was logged, and it is logged exactly when task_ids is empty: never
\* while task_ids has an entry, and as the very next steps once the poll
\* phase sees task_ids empty (the while test then ends the loop; inside a
\* cycle task_ids is empty only when the snapshot is used up).  A run that
\* stops without the summary is an aborted one.  With no accepted
\* submission the loop is never entered and no status query is issued.
C7_SummaryWhenActiveSetEmpty ==
    /\ summary <= 1
    /\ (pc = "done") <=> (summary = 1)
    /\ summary = 1 => task_ids = <<>>
    /\ (pc = "while" /\ task_ids = <<>>) => (ENABLED Finish /\ ~ENABLED BeginCycle)
    /\ (pc = "while" /\ task_ids # <<>>) => ~ENABLED Finish
    /\ (pc = "for" /\ task_ids = <<>>) => (items = <<>> /\ ENABLED EndCycle)
    /\ pc \notin {"done", "aborted"} => ENABLED Next
    /\ pc = "aborted" => (summary = 0 /\ "migration_failed" \in errors)
    /\ (Polling /\ Accepted = {}) =>
          /\ pc \in {"while", "done"}
          /\ cycles = 0
          /\ \A t \in TaskIds \cup {None} : nQueries[t] = 0

\* a run that polled for two cycles and then logged the summary
C7_Witness ==
    /\ pc = "done" /\ summary = 1 /\ task_ids = <<>>
    /\ Accepted # {}
    /\ cycles = 2

\* a run whose submissions all failed logged the summary without polling
C7_WitnessNothingSubmitted ==
    /\ pc = "done" /\ summary = 1
    /\ Len(calls) = 2 /\ Accepted = {}
    /\ cycles = 0

----------------------------------------------------------------------------
\* C8: when load_config or the client constructor failed, the run is
\* aborted with the failure and "Migration failed" logged, no reindex call
\* and no status query was issued, the poll loop was not entered, no
\* summary line was logged, and nothing more happens.
C8_FatalBeforeSubmission ==
    ("load_failed" \in errors \/ "client_failed" \in errors) =>
        /\ pc = "aborted"
        /\ "migration_failed" \in errors
        /\ calls = <<>>
        /\ task_ids = <<>>
        /\ \A t \in TaskIds \cup {None} : nQueries[t] = 0
        /\ cycles = 0
        /\ summary = 0
        /\ ~ENABLED Next

\* the configuration was loaded and the client constructor failed
C8_Witness ==
    /\ pc = "aborted"
    /\ "client_failed" \in errors
    /\ source_indices # <<>>

\* the configuration could not be loaded
C8_WitnessLoad ==
    /\ pc = "aborted"
    /\ "load_failed" \in errors

----------------------------------------------------------------------------
\* what a step that answers a status query with completion must do, and
\* what the step that ends the run must find
C9_CompletionStep ==
    /\ \A r \in {m \in ContractMappings : m.completed = "true"} :
          Poll(r) =>
             LET index   == Head(items)[1]
                 task_id == Head(items)[2]
             IN  /\ outcome'[task_id] =
                       IF r.error # "absent" THEN "failed_remote" ELSE "completed"
                 /\ nTerminal'[task_id] = nTerminal[task_id] + 1
                 /\ index \notin Keys(task_ids')
                 /\ items' = Tail(items)
    /\ \A t \in TaskIds : nTerminal'[t] <= 1
    /\ pc' = "done" => \A k \in Accepted : nTerminal'[calls[k].task] = 1

\* C9: a status query that reports completion makes its task Failed when the
\* mapping has an error field and Completed otherwise, logs that line and
\* removes the index from task_ids in the same pass; no task gets a second
\* terminal line, and when the run ends every task id a reindex call
\* returned has exactly one.
C9_OneTerminalOutcomePerJob == [][C9_CompletionStep]_vars

----------------------------------------------------------------------------
\* the client answers the status query of task t with completion or raises
PollTerminalOf(t) ==
    /\ pc = "for" /\ items # <<>> /\ Head(items)[2] = t
    /\ \E r \in {m \in ContractResponses : m.raised \/ m.completed = "true"} : Poll(r)

\* the while loop has no bound: whatever the number of cycles so far, a
\* non-empty task_ids starts another cycle and never the summary, and every
\* entry of the snapshot can be answered "in progress"
C10_NoIterationBound ==
    /\ (pc = "while" /\ task_ids # <<>>) => (ENABLED BeginCycle /\ ~ENABLED Finish)
    /\ (pc = "for" /\ items # <<>>) =>
          ENABLED Poll([raised |-> FALSE, completed |-> "false", error |-> "absent"])
    /\ task_ids # <<>> => summary = 0

\* C10: the poll loop is unbounded (C10_NoIterationBound); a task that stays
\* in task_ids for ever (every query of it says "in progress") is queried
\* again and again and the summary line is never logged; and if for every
\* task the queries eventually report completion or raise, a run that has
\* issued a reindex call or ended the submit loop reaches the summary line
\* with task_ids empty.
C10_PollsUntilAllTerminal ==
    /\ []C10_NoIterationBound
    /\ \A t \in TaskIds :
          <>[](t \in Values(task_ids)) =>
             ([]<>(pc = "for" /\ items # <<>> /\ Head(items)[2] = t) /\ [](summary = 0))
    /\ (\A t \in TaskIds : SF_vars(PollTerminalOf(t))) =>
          ((calls # <<>> \/ pc = "while") ~>
              (pc = "done" /\ summary = 1 /\ task_ids = <<>>))

\* after two cycles a task is still in progress and the loop goes on
C10_Witness ==
    /\ pc = "for"
    /\ cycles = MaxCycles
    /\ \E t \in TaskIds :
          /\ t \in Values(task_ids)
          /\ nQueries[t] = MaxCount
          /\ outcome[t] = "none"

-----------------------------------------------------------------------------
\* C11 as stated: without poll errors the loop runs exactly ceil(T / interval)
\* cycles, T the time after the submit loop at which the slowest submitted
\* task completes.
C11_ExactlyCeilCycles ==
    (pc = "done" /\ NoPollErrors) =>
        cycles = Ceil(SlowestOf({calls[k].task : k \in Accepted}), Interval)

\* C11: without poll errors and with at least one task in task_ids when the
\* submit loop ends, the loop runs at least one cycle and at most
\* max(1, ceil(T / interval)) cycles, T the time after the submit loop at which
\* the slowest task held in task_ids completes; it does not end before T; and
\* it runs exactly max(1, ceil(T / interval)) cycles when the waits are the only
\* time that passed.
C11_CyclesUntilSlowestCompletes ==
    LET T == SlowestOf(TrackedTasks)
    IN  (pc = "done" /\ NoPollErrors /\ TrackedTasks # {}) =>
            /\ cycles >= 1
            /\ cycles <= Max(1, Ceil(T, Interval))
            /\ now >= T
            /\ now = Interval * cycles => cycles = Max(1, Ceil(T, Interval))

\* the slowest task completes two intervals after the submit loop and the
\* loop ends after two cycles
C11_Witness ==
    /\ pc = "done"
    /\ NoPollErrors
    /\ SlowestOf(TrackedTasks) = 2 * Interval
    /\ cycles = 2
    /\ now = 2 * Interval

\* a query that takes time lets the loop see the completion a cycle early
C11_WitnessFewerCycles ==
    /\ pc = "done"
    /\ NoPollErrors
    /\ TrackedTasks # {}
    /\ cycles < Ceil(SlowestOf(TrackedTasks), Interval)

-----------------------------------------------------------------------------
\* the step that starts a cycle waits one interval and queries nothing; the
\* queries of the cycle follow it
C12_CycleStep ==
    (pc = "while" /\ pc' = "for") =>
        /\ now' = Min(now + Interval, MaxNow)
        /\ nQueries' = nQueries
        /\ queried' = <<>>

\* the time elapsed covers one interval per cycle started, and a status query
\* was made only after the first wait
C12_ElapsedCoversCycles ==
    /\ now >= Interval * cycles
    /\ pc = "for" => cycles >= 1
    /\ (\E t \in TaskIds : nQueries[t] > 0) => (cycles >= 1 /\ now >= Interval)
    /\ queried # <<>> => now >= Interval

\* C12: every poll cycle, the first included, begins with one wait of the
\* interval before any status query of that cycle: no query is issued before
\* one interval has elapsed after the submit loop, and after k cycles at least
\* k intervals have elapsed.
C12_WaitBeforeEveryCycle == []C12_ElapsedCoversCycles /\ [][C12_CycleStep]_vars

\* a second cycle is querying, two intervals or more after the submit loop
C12_Witness ==
    /\ pc = "for"
    /\ cycles = 2
    /\ queried # <<>>
    /\ now >= 2 * Interval

-----------------------------------------------------------------------------
\* the mappings that report a task as still in progress
InProgressResponses == {m \in ContractMappings : m.completed = "false"}

\* what a step that answers a status query "in progress" must do
C13_InProgressStep ==
    \A response \in InProgressResponses :
       Poll(response) =>
          /\ task_ids' = task_ids
          /\ \E j \in 1..Len(task_ids') : task_ids'[j] = Head(items)
          /\ outcome' = outcome
          /\ nTerminal' = nTerminal
          /\ \A k \in 1..MaxIndices : JobState(k)' = JobState(k)
          /\ items' = Tail(items)
          /\ pc' = "for"

\* C13: a status query answered "in progress" changes nothing about the job
\* or the others: the job stays Submitted, its entry stays in task_ids with
\* the same task id (so it is queried again in the next cycle), and no other
\* entry of task_ids changes.
C13_InProgressChangesNothing == [][C13_InProgressStep]_vars

\* a task answered "in progress" in the first cycle is queried again in the
\* second, its entry unchanged beside another one
C13_Witness ==
    /\ pc = "for"
    /\ cycles = 2
    /\ Len(task_ids) = 2
    /\ queried # <<>>
    /\ LET task_id == queried[Len(queried)][2]
       IN  /\ nQueries[task_id] = 2
           /\ outcome[task_id] = "none"
           /\ queried[Len(queried)] \in {task_ids[j] : j \in 1..Len(task_ids)}

-----------------------------------------------------------------------------
\* the reindex calls follow the configured order, one per entry, and no status
\* query is made before the last of them
C14_SubmitsBeforeQueries ==
    /\ Len(calls) <= Len(source_indices)
    /\ \A k \in 1..Len(calls) : calls[k].index = source_indices[k]
    /\ (Polling \/ cycles > 0 \/ \E t \in TaskIds : nQueries[t] > 0) =>
          /\ Len(calls) = Len(source_indices)
          /\ i = Len(source_indices)
    /\ ~Polling => (cycles = 0 /\ \A t \in TaskIds : nQueries[t] = 0)

\* once the poll phase started no reindex call is made and task_ids gains no
\* entry
C14_PollStep ==
    Polling =>
        /\ calls' = calls
        /\ i' = i
        /\ \A j \in 1..Len(task_ids') : \E k \in 1..Len(task_ids) : task_ids'[j] = task_ids[k]
        /\ Len(task_ids') <= Len(task_ids)

\* C14: the run is strictly phased: every reindex call, in the configured
\* order and one per entry, is made before the first status query, and once
\* polling has started no reindex call is made, so task_ids never grows in
\* the poll phase.
C14_StrictlyPhased == []C14_SubmitsBeforeQueries /\ [][C14_PollStep]_vars

\* three entries had their calls, one without a task id, and the first
\* cycle has started querying the two others
C14_Witness ==
    /\ pc = "for"
    /\ cycles = 1
    /\ queried # <<>>
    /\ Len(calls) = 3
    /\ Len(snapshot) = 2

-----------------------------------------------------------------------------
\* within a cycle the queries made so far and the entries still to visit are
\* the entries task_ids had when the cycle started, each once and in order
C15_CycleCoversSnapshot ==
    /\ pc = "for" => queried \o items = snapshot
    /\ (pc \in {"while", "done"} /\ cycles > 0) => queried = snapshot
    /\ \A j, k \in 1..Len(snapshot) :
          j # k => (snapshot[j][1] # snapshot[k][1] /\ snapshot[j][2] # snapshot[k][2])

\* a cycle starts on the entries of task_ids and ends only when all were
\* visited; every visit is one status query of the visited task
C15_CycleStep ==
    /\ (pc = "while" /\ pc' = "for") => (items' = task_ids /\ snapshot' = task_ids)
    /\ (pc = "for" /\ pc' = "while") => (items = <<>> /\ queried = snapshot)
    /\ (pc = "for" /\ items' # items) =>
          /\ items' = Tail(items)
          /\ queried' = Append(queried, Head(items))
          /\ nQueries'[Head(items)[2]] = Bump(nQueries[Head(items)[2]], MaxCount)
          /\ \A t \in TaskIds : t # Head(items)[2] => nQueries'[t] = nQueries[t]

\* C15: in each poll cycle every task that is in task_ids when the cycle
\* starts is queried exactly once in that cycle, also when other entries are
\* popped during the cycle: popping while iterating skips nothing and
\* repeats nothing.
C15_EachActiveJobQueriedOnce == []C15_CycleCoversSnapshot /\ [][C15_CycleStep]_vars

\* the first of three entries was popped in the first cycle and the two
\* others were still queried in it
C15_Witness ==
    /\ pc = "while"
    /\ cycles = 1
    /\ Len(snapshot) = 3
    /\ queried = snapshot
    /\ outcome[snapshot[1][2]] # "none"
    /\ task_ids = Tail(snapshot)
    /\ \A k \in 1..Len(snapshot) : nQueries[snapshot[k][2]] = 1

-----------------------------------------------------------------------------
\* C16: at most one task id is ever issued for an index: no index has two
\* reindex calls, and task_ids maps an index to nothing but the task id its
\* one submission returned.
C16_OneJobIdPerCollection ==
    /\ \A j, k \in 1..Len(calls) : j # k => calls[j].index # calls[k].index
    /\ \A n \in Names : Cardinality(TasksOf(n)) <= 1
    /\ \A j \in 1..Len(task_ids) : TasksOf(task_ids[j][1]) = {task_ids[j][2]}

-----------------------------------------------------------------------------
\* C17: when the summary line is logged, every task id a reindex call
\* returned has been queried at least once and a terminal line was logged for
\* it: no remote task is left unobserved.
C17_NoOrphanedTask ==
    pc = "done" =>
        \A k \in Accepted :
           /\ nQueries[calls[k].task] >= 1
           /\ outcome[calls[k].task] \in Terminal

-----------------------------------------------------------------------------
\* the entries of a dict or of a snapshot of it
Entries(d) == {d[k] : k \in 1..Len(d)}

\* a task for which a terminal line was logged is neither in task_ids nor
\* among the entries the current cycle still visits, and what task_ids holds
\* during or after a cycle it held when the cycle started
C18_TerminalIsGone ==
    /\ \A t \in TaskIds :
          outcome[t] \in Terminal =>
             /\ t \notin Values(task_ids)
             /\ t \notin Values(items)
    /\ (Polling /\ cycles > 0) => Entries(task_ids) \subseteq Entries(snapshot)

\* no step queries a task that is terminal, and no step of the poll phase
\* adds an entry to task_ids
C18_ShrinkStep ==
    /\ \A t \in TaskIds : outcome[t] \in Terminal => nQueries'[t] = nQueries[t]
    /\ (pc = "for" /\ items' # items) => outcome[Head(items)[2]] = "none"
    /\ Polling => Entries(task_ids') \subseteq Entries(task_ids)

\* C18: once a terminal line was logged for a task and its entry popped, no
\* status query is issued for its task id any more, and task_ids only
\* shrinks over the poll phase: after every cycle it is a subset of what it
\* was before the cycle.
C18_NoQueryAfterTerminal == []C18_TerminalIsGone /\ [][C18_ShrinkStep]_vars

\* a task was seen terminal in the first cycle; the second cycle queried the
\* remaining entries and not that task
C18_Witness ==
    /\ pc = "while"
    /\ cycles = 2
    /\ queried # <<>>
    /\ queried = snapshot
    /\ \E t \in TaskIds :
          /\ outcome[t] \in Terminal
          /\ nQueries[t] = 1
          /\ t \notin Values(snapshot)

====
